---- MODULE Spec2Model ----
(***************************************************************************)
(* A model of the resistor colour-band codec of resistor.py and of the     *)
(* default card run of resistor_cards.py.                                  *)
(*                                                                         *)
(* Python floats are modelled as exact decimals: a float is a record       *)
(* [m |-> integer, e |-> integer] standing for m * 10^e, kept normalised   *)
(* (no trailing zero in m, zero is [m |-> 0, e |-> 0]) so that equality of *)
(* records is equality of values.  Where the binary float arithmetic of    *)
(* the code cannot be trusted to agree with the decimal arithmetic (an     *)
(* exact decimal tie in round() of a quotient of non-integer floats) the   *)
(* model keeps both outcomes.                                              *)
(***************************************************************************)
EXTENDS Integers, Sequences, FiniteSets, TLC

VARIABLES self, path, inputs, ret, exc, card_i

vars == <<self, path, inputs, ret, exc, card_i>>

(***************************************************************************)
(* Bounds of the model.                                                    *)
(***************************************************************************)
\* from_float is called with the mantissas 0 - 1 .. MaxMant (and a few 4-digit ones)
MaxMant == 1000
\* ... times 10^e for e in -ExpBelow .. MaxExp
ExpBelow == 5
MaxExp == 8
\* Fixed.from_float is called with places in 1 .. MaxPlaces
MaxPlaces == 3

(***************************************************************************)
(* Decimal arithmetic.                                                     *)
(***************************************************************************)
RECURSIVE Pow10(_)
Pow10(n) == IF n <= 0 THEN 1 ELSE 10 * Pow10(n - 1)

Abs(n) == IF n < 0 THEN 0 - n ELSE n

\* the number of decimal digits of |n| (0 for n = 0)
RECURSIVE Digits(_)
Digits(n) == IF n = 0 THEN 0 ELSE 1 + Digits(Abs(n) \div 10)

\* the float m * 10^e
RECURSIVE Float(_, _)
Float(m, e) ==
    IF m = 0 THEN [m |-> 0, e |-> 0]
    ELSE IF Abs(m) % 10 = 0
         THEN Float(IF m < 0 THEN 0 - (Abs(m) \div 10) ELSE m \div 10, e + 1)
         ELSE [m |-> m, e |-> e]

\* math.floor(math.log10(val)) of a positive float
FloorLog10(val) == Digits(val.m) - 1 + val.e

\* round(val / 10**exponent) of a positive float: Python rounds half to even.
\* When val is not an integer, val and 10**exponent are inexact binary floats
\* and an exact decimal tie comes out on either side.
Round(val, exponent) ==
    LET sh == val.e - exponent
    IN  IF sh >= 0 THEN {val.m * Pow10(sh)}
        ELSE LET d == Pow10(0 - sh)
                 q == val.m \div d
                 r == val.m % d
             IN  IF 2 * r < d THEN {q}
                 ELSE IF 2 * r > d THEN {q + 1}
                 ELSE IF val.e >= 0 THEN {IF q % 2 = 0 THEN q ELSE q + 1}
                 ELSE {q, q + 1}

(***************************************************************************)
(* Results of a call: a returned value or a raised exception.              *)
(***************************************************************************)
None == [kind |-> "None"]
NoExc == [type |-> "none"]

Return(v) == [ok |-> TRUE, value |-> v, exc |-> NoExc]
Raise(x) == [ok |-> FALSE, value |-> None, exc |-> x]

MathDomainError == [type |-> "ValueError", msg |-> "math domain error"]
KeyError(name) == [type |-> "KeyError", key |-> name]
NotAValid(enum, code) ==
    [type |-> "ValueError", msg |-> "is not a valid " \o enum, code |-> code]
NoPrefixError == [type |-> "ValueError", msg |-> "Couldn't find prefix"]

(***************************************************************************)
(* The enums: members in definition order, <<name, value>>.                *)
(***************************************************************************)
\* ValueColor with the alias defined first: grey becomes the member's name
ValueColorGreyFirst ==
    << <<"black", 0>>, <<"brown", 1>>, <<"red", 2>>, <<"orange", 3>>,
       <<"yellow", 4>>, <<"green", 5>>, <<"blue", 6>>, <<"violet", 7>>,
       <<"grey", 8>>, <<"gray", 8>>, <<"white", 9>> >>

ValueColor ==
    << <<"black", 0>>, <<"brown", 1>>, <<"red", 2>>, <<"orange", 3>>,
       <<"yellow", 4>>, <<"green", 5>>, <<"blue", 6>>, <<"violet", 7>>,
       <<"gray", 8>>, <<"grey", 8>>, <<"white", 9>> >>

ExponentColor ==
    << <<"black", 0>>, <<"brown", 1>>, <<"red", 2>>, <<"orange", 3>>,
       <<"yellow", 4>>, <<"green", 5>>, <<"blue", 6>>, <<"violet", 7>>,
       <<"gold", 0 - 1>>, <<"silver", 0 - 2>>, <<"pink", 0 - 3>> >>

\* the percentages are floats: [m, e] as above (0.25 is 25 * 10^-2)
TolerancePercentColor ==
    << <<"brown", Float(1, 0)>>, <<"red", Float(2, 0)>>,
       <<"green", Float(5, 0 - 1)>>, <<"blue", Float(25, 0 - 2)>>,
       <<"violet", Float(1, 0 - 1)>>, <<"gray", Float(5, 0 - 2)>>,
       <<"grey", Float(5, 0 - 2)>>, <<"gold", Float(5, 0)>>,
       <<"silver", Float(10, 0)>>, <<"none", Float(20, 0)>> >>

\* resistor_cards.py: the fill colour and the abbreviation of each colour name
ColorHex ==
    << <<"black", "#000000">>, <<"brown", "#8B4513">>, <<"red", "#FF0000">>,
       <<"orange", "#FFA500">>, <<"yellow", "#FFFF00">>, <<"green", "#008800">>,
       <<"blue", "#00008B">>, <<"violet", "#800080">>, <<"gray", "#808080">>,
       <<"grey", "#808080">>, <<"white", "#FFFFFF">>, <<"gold", "#FFD700">>,
       <<"silver", "#C0C0C0">>, <<"pink", "#FFC0CB">>, <<"none", "#D2B48C">> >>

ColorAbbr ==
    << <<"black", "Bk">>, <<"brown", "Br">>, <<"red", "Rd">>, <<"orange", "Or">>,
       <<"yellow", "Yl">>, <<"green", "Gr">>, <<"blue", "Bl">>, <<"violet", "Vt">>,
       <<"gray", "Gy">>, <<"grey", "Gy">>, <<"white", "Wt">>, <<"gold", "Gd">>,
       <<"silver", "Sl">>, <<"pink", "Pk">>, <<"none", "x">> >>

EnumOf(ename) ==
    CASE ename = "ValueColor" -> ValueColor
      [] ename = "ExponentColor" -> ExponentColor
      [] ename = "TolerancePercentColor" -> TolerancePercentColor
      [] ename = "ColorHex" -> ColorHex
      [] ename = "ColorAbbr" -> ColorAbbr

Names(enum) == {enum[i][1] : i \in DOMAIN enum}
Values(enum) == {enum[i][2] : i \in DOMAIN enum}

\* the member of that value: the first one defined with it (a later name
\* with the same value is an alias of it)
FirstWith(enum, value) ==
    CHOOSE i \in DOMAIN enum :
        /\ enum[i][2] = value
        /\ \A j \in DOMAIN enum : enum[j][2] = value => i <= j

\* Enum[name] falling back to the first member for an unknown name
ByNameOrFirst(ename, name) ==
    LET enum == EnumOf(ename)
    IN  IF name \in Names(enum)
        THEN LET i == CHOOSE i \in DOMAIN enum : enum[i][1] = name
             IN  Return(FirstWith(enum, enum[i][2]))
        ELSE Return(1)

\* Enum[name]: the member of that name, KeyError when there is none
ByName(ename, name) ==
    LET enum == EnumOf(ename)
    IN  IF name \in Names(enum)
        THEN LET i == CHOOSE i \in DOMAIN enum : enum[i][1] = name
             IN  Return(FirstWith(enum, enum[i][2]))
        ELSE Raise(KeyError(name))

\* Enum(value): the member of that value, ValueError when there is none
ByValue(ename, value) ==
    LET enum == EnumOf(ename)
    IN  IF value \in Values(enum)
        THEN Return(FirstWith(enum, value))
        ELSE Raise(NotAValid(ename, value))

\* member.value and member.name
MemberValue(ename, i) == EnumOf(ename)[i][2]
MemberName(ename, i) == EnumOf(ename)[i][1]

(***************************************************************************)
(* Fixed.                                                                  *)
(***************************************************************************)
Fixed(mantissa, exponent) == [mantissa |-> mantissa, exponent |-> exponent]

\* Fixed.from_float keeping `places` digits: exponent = base_exponent - (places - 1)
Fixed_from_float_PlacesDigits(val, places) ==
    IF val.m <= 0 THEN {Raise(MathDomainError)}
    ELSE LET base_exponent == FloorLog10(val)
             exponent == base_exponent - (places - 1)
         IN  {Return(Fixed(mantissa, exponent)) : mantissa \in Round(val, exponent)}

\* Fixed.from_float(val, places): the outcomes (one, but for a tie of Round)
Fixed_from_float(val, places) ==
    IF val.m <= 0 THEN {Raise(MathDomainError)}
    ELSE LET base_exponent == FloorLog10(val)
             exponent == base_exponent - places
         IN  {Return(Fixed(mantissa, exponent)) : mantissa \in Round(val, exponent)}

\* Fixed.as_float()
as_float(fixed) == Float(fixed.mantissa, fixed.exponent)

(***************************************************************************)
(* si_prefixer.                                                            *)
(***************************************************************************)
prefixes == << <<3, "k">>, <<6, "M">> >>

\* sorted(prefixes.items()) without reverse=True: ascending exponents
RECURSIVE SortedForward(_)
SortedForward(idx) ==
    IF idx = {} THEN <<>>
    ELSE LET low == CHOOSE i \in idx : \A j \in idx : prefixes[i][1] <= prefixes[j][1]
         IN  <<low>> \o SortedForward(idx \ {low})

\* sorted(prefixes.items(), reverse=True): the indices by descending exponent
RECURSIVE SortedReverse(_)
SortedReverse(idx) ==
    IF idx = {} THEN <<>>
    ELSE LET top == CHOOSE i \in idx : \A j \in idx : prefixes[j][1] <= prefixes[i][1]
         IN  <<top>> \o SortedReverse(idx \ {top})

\* whether math.floor(value / 10**exp) is non-zero, for a value >= 0
FloorNonzero(value, exp) ==
    IF value.e >= exp THEN value.m # 0
    ELSE IF Digits(value.m) <= exp - value.e THEN FALSE
    ELSE value.m \div Pow10(exp - value.e) # 0

\* the for/else loop of si_prefixer over the items from position k on
RECURSIVE PrefixLoop(_, _, _)
PrefixLoop(value, items, k) ==
    IF k > Len(items) THEN Raise(NoPrefixError)
    ELSE LET exp == prefixes[items[k]][1]
             prefix == prefixes[items[k]][2]
         IN  IF FloorNonzero(value, exp)
             THEN Return([scaled |-> Float(value.m, value.e - exp), prefix |-> prefix])
             ELSE PrefixLoop(value, items, k + 1)

si_prefixer(value) == PrefixLoop(value, SortedReverse(DOMAIN prefixes), 1)

(***************************************************************************)
(* Text: a string is built as a sequence of characters.                    *)
(***************************************************************************)
DigitChar(d) == <<"0", "1", "2", "3", "4", "5", "6", "7", "8", "9">>[d + 1]

\* the decimal digits of n > 0
RECURSIVE DigitChars(_)
DigitChars(n) == IF n = 0 THEN <<>> ELSE DigitChars(n \div 10) \o <<DigitChar(n % 10)>>

Zeros(n) == [i \in 1..n |-> "0"]

RECURSIVE Join(_)
Join(chars) == IF chars = <<>> THEN "" ELSE Head(chars) \o Join(Tail(chars))

\* str.strip(): leading and trailing blanks removed
RECURSIVE Strip(_)
Strip(chars) ==
    IF chars = <<>> THEN chars
    ELSE IF Head(chars) = " " THEN Strip(Tail(chars))
    ELSE IF chars[Len(chars)] = " " THEN Strip(SubSeq(chars, 1, Len(chars) - 1))
    ELSE chars

\* the precision of the g format
GPrecision == 6

\* format(value, "g") of a float >= 0: at most GPrecision significant digits,
\* no trailing zeros, scientific notation for an exponent below -4 or from
\* GPrecision on
FormatG(value) ==
    IF value.m = 0 THEN <<"0">>
    ELSE LET over == Digits(value.m) - GPrecision
             v == IF over > 0
                  THEN Float(CHOOSE q \in Round(Float(value.m, 0), over) :
                                 \A q2 \in Round(Float(value.m, 0), over) : q <= q2,
                             value.e + over)
                  ELSE value
             ds == DigitChars(v.m)
             n == Len(ds)
             X == n - 1 + v.e
         IN  IF X < 0 - 4 \/ X >= GPrecision
             THEN <<ds[1]>> \o (IF n > 1 THEN <<".">> \o Tail(ds) ELSE <<>>)
                  \o <<"e", IF X < 0 THEN "-" ELSE "+">>
                  \o (IF Abs(X) < 10 THEN <<"0">> ELSE <<>>) \o DigitChars(Abs(X))
             ELSE IF v.e >= 0 THEN ds \o Zeros(v.e)
             ELSE IF X >= 0 THEN SubSeq(ds, 1, X + 1) \o <<".">> \o SubSeq(ds, X + 2, n)
             ELSE <<"0", ".">> \o Zeros(0 - X - 1) \o ds

(***************************************************************************)
(* ResistorValue.                                                          *)
(***************************************************************************)
ResistorValue(fixed) == [kind |-> "ResistorValue", fixed |-> fixed]
Bands(names) == [kind |-> "bands", names |-> names]
Str(chars) == [kind |-> "str", text |-> Join(chars)]

\* the places ResistorValue.from_float, as_three_bands and as_four_bands pass
PlacesValue == 2
PlacesThree == 1
PlacesFour == 2

\* ResistorValue.from_float(val)
ResistorValue_from_float(val) ==
    {IF r.ok THEN Return(ResistorValue(r.value)) ELSE r :
        r \in Fixed_from_float(val, PlacesValue)}

\* from_three_bands with the two digits in each other's place
from_three_bands_Swapped(first, second, exponent) ==
    LET f == ByName("ValueColor", first)
        s == ByName("ValueColor", second)
        x == ByName("ExponentColor", exponent)
    IN  IF ~f.ok THEN Raise(f.exc)
        ELSE IF ~s.ok THEN Raise(s.exc)
        ELSE IF ~x.ok THEN Raise(x.exc)
        ELSE LET value == MemberValue("ValueColor", f.value)
                          + MemberValue("ValueColor", s.value) * 10
                 exp_val == MemberValue("ExponentColor", x.value)
             IN  Return(ResistorValue(Fixed(value, exp_val)))

\* ResistorValue.from_three_bands(first, second, exponent)
from_three_bands(first, second, exponent) ==
    LET f == ByName("ValueColor", first)
        s == ByName("ValueColor", second)
        x == ByName("ExponentColor", exponent)
    IN  IF ~f.ok THEN Raise(f.exc)
        ELSE IF ~s.ok THEN Raise(s.exc)
        ELSE IF ~x.ok THEN Raise(x.exc)
        ELSE LET value == MemberValue("ValueColor", f.value) * 10
                          + MemberValue("ValueColor", s.value)
                 exp_val == MemberValue("ExponentColor", x.value)
             IN  Return(ResistorValue(Fixed(value, exp_val)))

\* ResistorValue.from_four_bands(first, second, third, exponent)
from_four_bands(first, second, third, exponent) ==
    LET f == ByName("ValueColor", first)
        s == ByName("ValueColor", second)
        t == ByName("ValueColor", third)
        x == ByName("ExponentColor", exponent)
    IN  IF ~f.ok THEN Raise(f.exc)
        ELSE IF ~s.ok THEN Raise(s.exc)
        ELSE IF ~t.ok THEN Raise(t.exc)
        ELSE IF ~x.ok THEN Raise(x.exc)
        ELSE LET value == MemberValue("ValueColor", f.value) * 100
                          + MemberValue("ValueColor", s.value) * 10
                          + MemberValue("ValueColor", t.value)
                 exp_val == MemberValue("ExponentColor", x.value)
             IN  Return(ResistorValue(Fixed(value, exp_val)))

\* as_three_bands splitting the mantissa with the units first
ThreeBandsOfUnitsFirst(dec) ==
    LET first == ByValue("ValueColor", dec.mantissa % 10)
        second == ByValue("ValueColor", dec.mantissa \div 10)
        exponent == ByValue("ExponentColor", dec.exponent)
    IN  IF ~first.ok THEN Raise(first.exc)
        ELSE IF ~second.ok THEN Raise(second.exc)
        ELSE IF ~exponent.ok THEN Raise(exponent.exc)
        ELSE Return(Bands(<<MemberName("ValueColor", first.value),
                            MemberName("ValueColor", second.value),
                            MemberName("ExponentColor", exponent.value)>>))

\* the body of as_three_bands once dec is derived
ThreeBandsOf(dec) ==
    LET first == ByValue("ValueColor", dec.mantissa \div 10)
        second == ByValue("ValueColor", dec.mantissa % 10)
        exponent == ByValue("ExponentColor", dec.exponent)
    IN  IF ~first.ok THEN Raise(first.exc)
        ELSE IF ~second.ok THEN Raise(second.exc)
        ELSE IF ~exponent.ok THEN Raise(exponent.exc)
        ELSE Return(Bands(<<MemberName("ValueColor", first.value),
                            MemberName("ValueColor", second.value),
                            MemberName("ExponentColor", exponent.value)>>))

\* as_three_bands carrying a mantissa of 100 into the exponent
as_three_bands_Carrying(rv) ==
    {IF dec.ok
     THEN IF dec.value.mantissa = 100
          THEN ThreeBandsOf(Fixed(10, dec.value.exponent + 1))
          ELSE ThreeBandsOf(dec.value)
     ELSE dec :
        dec \in Fixed_from_float(as_float(rv.fixed), PlacesThree)}

\* rv.as_three_bands(): the outcomes
as_three_bands(rv) ==
    {IF dec.ok THEN ThreeBandsOf(dec.value) ELSE dec :
        dec \in Fixed_from_float(as_float(rv.fixed), PlacesThree)}

\* as_four_bands taking the tens without removing the hundreds
FourBandsOfTensNotReduced(fixed) ==
    LET first == ByValue("ValueColor", fixed.mantissa \div 100)
        second == ByValue("ValueColor", fixed.mantissa \div 10)
        third == ByValue("ValueColor", fixed.mantissa % 10)
        exponent == ByValue("ExponentColor", fixed.exponent)
    IN  IF ~first.ok THEN Raise(first.exc)
        ELSE IF ~second.ok THEN Raise(second.exc)
        ELSE IF ~third.ok THEN Raise(third.exc)
        ELSE IF ~exponent.ok THEN Raise(exponent.exc)
        ELSE Return(Bands(<<MemberName("ValueColor", first.value),
                            MemberName("ValueColor", second.value),
                            MemberName("ValueColor", third.value),
                            MemberName("ExponentColor", exponent.value)>>))

\* the body of as_four_bands once fixed is derived
FourBandsOf(fixed) ==
    LET first == ByValue("ValueColor", fixed.mantissa \div 100)
        firstv == MemberValue("ValueColor", first.value)
        second == ByValue("ValueColor", (fixed.mantissa - firstv * 100) \div 10)
        third == ByValue("ValueColor", fixed.mantissa % 10)
        exponent == ByValue("ExponentColor", fixed.exponent)
    IN  IF ~first.ok THEN Raise(first.exc)
        ELSE IF ~second.ok THEN Raise(second.exc)
        ELSE IF ~third.ok THEN Raise(third.exc)
        ELSE IF ~exponent.ok THEN Raise(exponent.exc)
        ELSE Return(Bands(<<MemberName("ValueColor", first.value),
                            MemberName("ValueColor", second.value),
                            MemberName("ValueColor", third.value),
                            MemberName("ExponentColor", exponent.value)>>))

\* rv.as_four_bands(): the outcomes
as_four_bands(rv) ==
    {IF fixed.ok THEN FourBandsOf(fixed.value) ELSE fixed :
        fixed \in Fixed_from_float(as_float(rv.fixed), PlacesFour)}

\* rv.value
value_of(rv) == as_float(rv.fixed)

\* the text of the try branch and of the except branch of __str__
PrefixedText(p) == Strip(FormatG(p.scaled) \o <<" ">> \o <<p.prefix>> \o <<"Ω">>)
UnprefixedText(value) == FormatG(value) \o <<"Ω">>

\* str(rv)
ResistorValue_str(rv) ==
    LET p == si_prefixer(value_of(rv))
    IN  IF p.ok THEN PrefixedText(p.value) ELSE UnprefixedText(value_of(rv))

(***************************************************************************)
(* The codec as a state machine.  self is the ResistorValue the last       *)
(* constructor returned, ret and exc what the last call returned or        *)
(* raised, path the calls made from the constructor on and inputs the      *)
(* arguments of the constructor calls of path.  The classmethods are pure  *)
(* functions of their arguments, so a run makes its first constructor call *)
(* on arguments of the caller's choice and every later one on the names an *)
(* encoding has returned.                                                  *)
(***************************************************************************)
\* the floats handed to from_float: also zero, a negative one, and 4-digit
\* mantissas that round up, down and on a tie
MantInputs == ((0 - 1)..MaxMant) \cup {1235, 1245, 9994, 9995, 9996}
FloatInputs == {Float(m, e) : m \in MantInputs, e \in (0 - ExpBelow)..MaxExp}

\* the names handed to the band constructors: every colour name of the enums
\* and "none", which is a tolerance colour only
BandNames == Names(ValueColor) \cup Names(ExponentColor) \cup {"none"}

Init ==
    /\ self = None
    /\ path = <<>>
    /\ inputs = <<>>
    /\ ret = None
    /\ exc = NoExc
    /\ card_i = 0

\* the constructor a method call on self goes back to, and its argument
Ctor == IF Len(path) = 3 THEN path[3] ELSE path[1]
CtorInput == IF Len(path) = 3 THEN inputs[2] ELSE inputs[1]

Constructed(r, op, arg, chained) ==
    /\ self' = r.value
    /\ ret' = r.value
    /\ exc' = r.exc
    /\ path' = IF chained THEN Append(path, op) ELSE <<op>>
    /\ inputs' = IF chained THEN Append(inputs, arg) ELSE <<arg>>
    /\ UNCHANGED card_i

Called(r, op) ==
    /\ ret' = r.value
    /\ exc' = r.exc
    /\ path' = <<Ctor, op>>
    /\ inputs' = <<CtorInput>>
    /\ UNCHANGED <<self, card_i>>

\* rv = ResistorValue.from_float(val)
CallFromFloat ==
    /\ path = <<>>
    /\ \E val \in FloatInputs :
        \E r \in ResistorValue_from_float(val) :
            Constructed(r, "from_float", val, FALSE)

\* the band names returned by the encoding of a value made by from_float
Encoded(op, n) ==
    /\ path = <<"from_float", op>>
    /\ ret.kind = "bands"
    /\ Len(ret.names) = n

\* rv = ResistorValue.from_three_bands(first, second, exponent), with any
\* names or with the names as_three_bands has just returned
CallFromThreeBands ==
    \/ /\ path = <<>>
       /\ \E first \in BandNames, second \in BandNames, exponent \in BandNames :
            Constructed(from_three_bands(first, second, exponent),
                        "from_three_bands", <<first, second, exponent>>, FALSE)
    \/ /\ Encoded("as_three_bands", 3)
       /\ Constructed(from_three_bands(ret.names[1], ret.names[2], ret.names[3]),
                      "from_three_bands", ret.names, TRUE)

\* rv = ResistorValue.from_four_bands(first, second, third, exponent)
CallFromFourBands ==
    \/ /\ path = <<>>
       /\ \E first \in BandNames, second \in BandNames, third \in BandNames,
             exponent \in BandNames :
            Constructed(from_four_bands(first, second, third, exponent),
                        "from_four_bands", <<first, second, third, exponent>>, FALSE)
    \/ /\ Encoded("as_four_bands", 4)
       /\ Constructed(from_four_bands(ret.names[1], ret.names[2], ret.names[3],
                                      ret.names[4]),
                      "from_four_bands", ret.names, TRUE)

\* self.as_three_bands()
CallAsThreeBands ==
    /\ self # None
    /\ \E r \in as_three_bands(self) : Called(r, "as_three_bands")

\* self.as_four_bands()
CallAsFourBands ==
    /\ self # None
    /\ \E r \in as_four_bands(self) : Called(r, "as_four_bands")

\* si_prefixer(self.value)
CallSiPrefixer ==
    /\ self # None
    /\ LET r == si_prefixer(value_of(self))
       IN  Called(IF r.ok
                  THEN Return([kind |-> "prefixed", scaled |-> r.value.scaled,
                               prefix |-> r.value.prefix])
                  ELSE r,
                  "si_prefixer")

\* str(self)
CallStr ==
    /\ self # None
    /\ Called(Return(Str(ResistorValue_str(self))), "__str__")

Next ==
    \/ CallFromFloat
    \/ CallFromThreeBands
    \/ CallFromFourBands
    \/ CallAsThreeBands
    \/ CallAsFourBands
    \/ CallSiPrefixer
    \/ CallStr

Spec == Init /\ [][Next]_vars

(***************************************************************************)
(* Fixed.from_float and Fixed.as_float called on their own.                *)
(***************************************************************************)
\* fixed = Fixed.from_float(val, places)
CallFixedFromFloat ==
    /\ path = <<>>
    /\ \E val \in FloatInputs, places \in 1..MaxPlaces :
        \E r \in Fixed_from_float(val, places) :
            /\ ret' = IF r.ok THEN [kind |-> "Fixed", fixed |-> r.value] ELSE None
            /\ exc' = r.exc
            /\ path' = <<"Fixed.from_float">>
            /\ inputs' = <<val, places>>
            /\ UNCHANGED <<self, card_i>>

\* fixed.as_float()
CallAsFloat ==
    /\ path = <<"Fixed.from_float">>
    /\ ret.kind = "Fixed"
    /\ ret' = [kind |-> "float", value |-> as_float(ret.fixed)]
    /\ path' = Append(path, "as_float")
    /\ UNCHANGED <<self, inputs, exc, card_i>>

NextFixed == CallFixedFromFloat \/ CallAsFloat

SpecFixed == Init /\ [][NextFixed]_vars

(***************************************************************************)
(* The enum lookups called on their own.                                   *)
(***************************************************************************)
\* how far beyond the values of an enum the looked-up integer codes go
CodeMargin == 2

EnumNames == {"ValueColor", "ExponentColor", "TolerancePercentColor"}

\* the names looked up: the colour names and two that no enum has
NameInputs == BandNames \cup {"Gray", "purple"}

\* the values looked up: around the codes of an integer enum; the
\* percentages, and two that are no tolerance
ValueInputs(ename) ==
    IF ename = "TolerancePercentColor"
    THEN Values(TolerancePercentColor) \cup {Float(3, 0), Float(0, 0)}
    ELSE LET vs == Values(EnumOf(ename))
             lo == CHOOSE v \in vs : \A w \in vs : v <= w
             hi == CHOOSE v \in vs : \A w \in vs : w <= v
         IN  (lo - CodeMargin)..(hi + CodeMargin)

Member(ename, r) ==
    IF r.ok
    THEN Return([kind |-> "member", enum |-> ename,
                 name |-> MemberName(ename, r.value),
                 value |-> MemberValue(ename, r.value)])
    ELSE r

Looked(r, op, arg, chained) ==
    /\ ret' = r.value
    /\ exc' = r.exc
    /\ path' = IF chained THEN Append(path, op) ELSE <<op>>
    /\ inputs' = IF chained THEN inputs ELSE arg
    /\ UNCHANGED <<self, card_i>>

\* Enum(value), with any value or with the value of the member just looked up
CallByValue ==
    \/ /\ path = <<>>
       /\ \E ename \in EnumNames : \E v \in ValueInputs(ename) :
            Looked(Member(ename, ByValue(ename, v)), "by_value", <<ename, v>>, FALSE)
    \/ /\ path = <<"by_name">>
       /\ ret.kind = "member"
       /\ Looked(Member(ret.enum, ByValue(ret.enum, ret.value)), "by_value", <<>>, TRUE)

\* Enum[name], with any name or with the name of the member just looked up
CallByName ==
    \/ /\ path = <<>>
       /\ \E ename \in EnumNames : \E n \in NameInputs :
            Looked(Member(ename, ByName(ename, n)), "by_name", <<ename, n>>, FALSE)
    \/ /\ path = <<"by_value">>
       /\ ret.kind = "member"
       /\ Looked(Member(ret.enum, ByName(ret.enum, ret.name)), "by_name", <<>>, TRUE)

NextTables == CallByValue \/ CallByName

SpecTables == Init /\ [][NextTables]_vars

(***************************************************************************)
(* The default card run: generate_cards(png_dir, values=E_12 + extras,     *)
(* exponents=range(-1, 7)).                                                *)
(***************************************************************************)
E_12 ==
    << Float(10, 0 - 1), Float(12, 0 - 1), Float(15, 0 - 1), Float(18, 0 - 1),
       Float(22, 0 - 1), Float(27, 0 - 1), Float(33, 0 - 1), Float(39, 0 - 1),
       Float(47, 0 - 1), Float(56, 0 - 1), Float(68, 0 - 1), Float(82, 0 - 1) >>

EXTRAS == << Float(30, 0 - 1), Float(51, 0 - 1) >>

\* range(-2, 6)
ExponentsFromMinusTwo == [k \in 1..8 |-> k - 3]

\* range(-1, 7)
Exponents == [k \in 1..8 |-> k - 2]

\* a < b for floats > 0
Less(a, b) ==
    LET lo == IF a.e < b.e THEN a.e ELSE b.e
    IN  a.m * Pow10(a.e - lo) < b.m * Pow10(b.e - lo)

\* sorted(values)
RECURSIVE SortedFloats(_, _)
SortedFloats(values, idx) ==
    IF idx = {} THEN <<>>
    ELSE LET least == CHOOSE i \in idx : \A j \in idx : ~Less(values[j], values[i])
         IN  <<values[least]>> \o SortedFloats(values, idx \ {least})

Values0 == E_12 \o EXTRAS
SortedValues == SortedFloats(Values0, DOMAIN Values0)

\* the arguments of from_float in the order of the comprehension:
\* for exp in exponents for val in sorted(values), val * 10.0**exp
NCards == Len(Exponents) * Len(SortedValues)
CardExp(i) == Exponents[((i - 1) \div Len(SortedValues)) + 1]
CardVal(i) == SortedValues[((i - 1) % Len(SortedValues)) + 1]
CardFloat(i) == Float(CardVal(i).m, CardVal(i).e + CardExp(i))

\* the default tolerances of generate_card, in percent
four_box_tol == Float(5, 0)
five_box_tol == Float(1, 0)

\* [*bands, TolerancePercentColor(tol).name]
WithTolerance(bands, tol) ==
    LET t == ByValue("TolerancePercentColor", tol)
    IN  IF ~bands.ok THEN bands
        ELSE IF ~t.ok THEN Raise(t.exc)
        ELSE Return(bands.value.names \o <<MemberName("TolerancePercentColor", t.value)>>)

\* the squares of a row: ColorHex[color] and ColorAbbr[color] of each colour
RECURSIVE Squares(_, _)
Squares(colors, k) ==
    IF k > Len(colors) THEN Return(<<>>)
    ELSE LET hex == ByName("ColorHex", colors[k])
             abbr == ByName("ColorAbbr", colors[k])
             rest == Squares(colors, k + 1)
         IN  IF ~hex.ok THEN Raise(hex.exc)
             ELSE IF ~abbr.ok THEN Raise(abbr.exc)
             ELSE IF ~rest.ok THEN rest
             ELSE Return(<< <<MemberValue("ColorHex", hex.value),
                              MemberValue("ColorAbbr", abbr.value)>> >> \o rest.value)

\* f"{i:03d}"
Index03(i) ==
    Join((IF i < 10 THEN <<"0", "0">> ELSE IF i < 100 THEN <<"0">> ELSE <<>>)
         \o (IF i = 0 THEN <<"0">> ELSE DigitChars(i)))

\* generate_card(rval) and the file name savefig is given, for card i:
\* the outcomes
generate_card(rval, i) ==
    {LET four_colors == WithTolerance(b3, four_box_tol)
         five_colors == WithTolerance(b4, five_box_tol)
         five == Squares(five_colors.value, 1)
         four == Squares(four_colors.value, 1)
         tol == Join(FormatG(five_box_tol))
         rstr == Join(ResistorValue_str(rval))
     IN  IF ~four_colors.ok THEN four_colors
         ELSE IF ~five_colors.ok THEN five_colors
         ELSE IF ~five.ok THEN five
         ELSE IF ~four.ok THEN four
         ELSE Return([kind |-> "card",
                      four_colors |-> four_colors.value,
                      five_colors |-> five_colors.value,
                      four_squares |-> four.value,
                      five_squares |-> five.value,
                      text |-> rstr \o ", " \o tol \o "%, " \o tol \o "%",
                      file |-> Index03(i) \o "-" \o rstr \o ".png"]) :
        b3 \in as_three_bands(rval), b4 \in as_four_bands(rval)}

\* the exception of the first from_float of the comprehension that raises
RvalueError ==
    IF \E k \in 1..NCards : \E r \in ResistorValue_from_float(CardFloat(k)) : ~r.ok
    THEN LET k == CHOOSE k \in 1..NCards :
                    \E r \in ResistorValue_from_float(CardFloat(k)) : ~r.ok
         IN  (CHOOSE r \in ResistorValue_from_float(CardFloat(k)) : ~r.ok).exc
    ELSE NoExc

\* one turn of the loop of generate_cards (the first one after the
\* comprehension has built rvalues)
GenerateCard ==
    /\ card_i < NCards
    /\ exc = NoExc
    /\ IF RvalueError # NoExc
       THEN /\ exc' = RvalueError
            /\ UNCHANGED <<self, path, inputs, ret, card_i>>
       ELSE \E rv \in ResistorValue_from_float(CardFloat(card_i + 1)) :
            \E r \in generate_card(rv.value, card_i) :
                /\ self' = rv.value
                /\ ret' = r.value
                /\ exc' = r.exc
                /\ path' = <<"from_float", "generate_card">>
                /\ inputs' = <<CardVal(card_i + 1), CardExp(card_i + 1)>>
                /\ card_i' = IF r.ok THEN card_i + 1 ELSE card_i

NextCards == GenerateCard

SpecCards == Init /\ [][NextCards]_vars

(***************************************************************************)
(* Properties.                                                             *)
(***************************************************************************)
ValueNames ==
    {"black", "brown", "red", "orange", "yellow", "green", "blue", "violet",
     "gray", "grey", "white"}
ExponentNames ==
    {"black", "brown", "red", "orange", "yellow", "green", "blue", "violet",
     "gold", "silver", "pink"}
\* the exponent colours from 10^-3 to 10^7
ExponentScale ==
    <<"pink", "silver", "gold", "black", "brown", "red", "orange", "yellow",
      "green", "blue", "violet">>
ExponentRange == (0 - 3)..7
Canonical(name) == IF name = "grey" THEN "gray" ELSE name

\* v = m * 10^e with m of n digits: v is exactly representable with n
\* significant digits, and then this m and e
Representable(v, n) == v.m > 0 /\ Digits(v.m) <= n
MantOf(v, n) == v.m * Pow10(n - Digits(v.m))
ExpOf(v, n) == v.e - (n - Digits(v.m))

EncodedThree == path = <<"from_float", "as_three_bands">>
DecodedThree == path = <<"from_float", "as_three_bands", "from_three_bands">>
EncodedFour == path = <<"from_float", "as_four_bands">>
DecodedFour == path = <<"from_float", "as_four_bands", "from_four_bands">>

\* C1 as stated: every value v exactly representable with 2 significant
\* digits is encoded by as_three_bands, and decoding the bands gives a
\* ResistorValue whose value is v.
C1_RoundTripEveryValue ==
    /\ (EncodedThree /\ Representable(inputs[1], 2)) => ret.kind = "bands"
    /\ (DecodedThree /\ Representable(inputs[1], 2)) =>
            self # None /\ value_of(self) = inputs[1]

\* C1 amended: for v = m * 10^e with m in 10..99 and e in -3..7 the three
\* bands are returned, and decoding them gives Fixed(m, e), whose value is v.
C1_RoundTripInRange ==
    /\ (EncodedThree /\ Representable(inputs[1], 2)
            /\ ExpOf(inputs[1], 2) \in ExponentRange) =>
            /\ exc = NoExc
            /\ ret.kind = "bands"
            /\ Len(ret.names) = 3
    /\ (DecodedThree /\ Representable(inputs[1], 2)) =>
            /\ ExpOf(inputs[1], 2) \in ExponentRange
            /\ exc = NoExc
            /\ self = ResistorValue(Fixed(MantOf(inputs[1], 2), ExpOf(inputs[1], 2)))
            /\ value_of(self) = inputs[1]

C1_Witness ==
    /\ DecodedThree
    /\ inputs[1] = Float(47, 1)
    /\ inputs[2] = <<"yellow", "violet", "brown">>
    /\ self = ResistorValue(Fixed(47, 1))

\* C2 as stated: every value v exactly representable with 3 significant
\* digits is encoded by as_four_bands, and decoding the bands gives a
\* ResistorValue whose value is v; 123000 is encoded as the colours of 1, 2,
\* 3 and of the exponent 3.
C2_RoundTripEveryValue ==
    /\ (EncodedFour /\ Representable(inputs[1], 3)) => ret.kind = "bands"
    /\ (DecodedFour /\ Representable(inputs[1], 3)) =>
            self # None /\ value_of(self) = inputs[1]
    /\ (EncodedFour /\ inputs[1] = Float(123, 3)) =>
            ret = Bands(<<"brown", "red", "orange", "orange">>)

\* C2 amended: for v = m * 10^e with m in 100..999 and e in -3..7 the four
\* bands are returned, and decoding them gives Fixed(m, e), whose value is v;
\* 123000 is encoded as brown, red, orange, orange.
C2_RoundTripInRange ==
    /\ (EncodedFour /\ Representable(inputs[1], 3)
            /\ ExpOf(inputs[1], 3) \in ExponentRange) =>
            /\ exc = NoExc
            /\ ret.kind = "bands"
            /\ Len(ret.names) = 4
    /\ (DecodedFour /\ Representable(inputs[1], 3)) =>
            /\ ExpOf(inputs[1], 3) \in ExponentRange
            /\ exc = NoExc
            /\ self = ResistorValue(Fixed(MantOf(inputs[1], 3), ExpOf(inputs[1], 3)))
            /\ value_of(self) = inputs[1]
    /\ (EncodedFour /\ inputs[1] = Float(123, 3)) =>
            ret = Bands(<<"brown", "red", "orange", "orange">>)

C2_Witness ==
    /\ DecodedFour
    /\ inputs[1] = Float(123, 3)
    /\ inputs[2] = <<"brown", "red", "orange", "orange">>
    /\ self = ResistorValue(Fixed(123, 3))

FixedReturned == path = <<"Fixed.from_float">> /\ inputs[1].m > 0

\* |mantissa * 10^exponent - val| <= 10^exponent / 2: mantissa is val / 10^exponent
\* rounded to the nearest integer
Nearest(mantissa, exponent, val) ==
    LET lo == IF exponent < val.e THEN exponent ELSE val.e
    IN  2 * Abs(mantissa * Pow10(exponent - lo) - val.m * Pow10(val.e - lo))
            <= Pow10(exponent - lo)

StrReturned == Len(path) = 2 /\ path[2] = "__str__"
PrefixerCalled == Len(path) = 2 /\ path[2] = "si_prefixer"

\* value >= 10^k, for a float >= 0
AtLeastPow10(value, k) == value.m > 0 /\ FloorLog10(value) >= k

\* the prefix of a value and the exponent it stands for
PrefixOf(value) ==
    IF AtLeastPow10(value, 6) THEN "M" ELSE IF AtLeastPow10(value, 3) THEN "k" ELSE ""
PrefixExp(value) ==
    IF AtLeastPow10(value, 6) THEN 6 ELSE IF AtLeastPow10(value, 3) THEN 3 ELSE 0
Scaled(value) == Float(value.m, value.e - PrefixExp(value))

\* C4: str(rv) is the scaled number in g format, a space, the SI prefix
\* (empty below 1000) and the ohm sign: "4.7 kΩ" for 4700, "2.2 MΩ" for
\* 2200000, "1 kΩ" for 1000 and "220 Ω" for 220.
C4_DisplayString ==
    StrReturned =>
        /\ ret.kind = "str"
        /\ ret.text = Join(FormatG(Scaled(value_of(self)))) \o " "
                        \o PrefixOf(value_of(self)) \o "Ω"
        /\ value_of(self) = Float(47, 2) => ret.text = "4.7 kΩ"
        /\ value_of(self) = Float(22, 5) => ret.text = "2.2 MΩ"
        /\ value_of(self) = Float(1, 3) => ret.text = "1 kΩ"
        /\ value_of(self) = Float(22, 1) => ret.text = "220 Ω"

\* C5: for a value of at least 1000 si_prefixer returns the value divided by
\* 10^6 with "M" when it is at least 10^6 and by 10^3 with "k" otherwise;
\* below 1000 it returns nothing and raises the no-prefix error, and str(rv)
\* then returns the unscaled number followed by the ohm sign.
C5_SiPrefixer ==
    /\ PrefixerCalled =>
        IF AtLeastPow10(value_of(self), 3)
        THEN /\ exc = NoExc
             /\ ret = [kind |-> "prefixed", scaled |-> Scaled(value_of(self)),
                       prefix |-> PrefixOf(value_of(self))]
             /\ ret.prefix = IF AtLeastPow10(value_of(self), 6) THEN "M" ELSE "k"
        ELSE /\ ret = None
             /\ exc = NoPrefixError
    /\ (StrReturned /\ ~AtLeastPow10(value_of(self), 3)) =>
        /\ exc = NoExc
        /\ ret = Str(FormatG(value_of(self)) \o <<"Ω">>)

C5_Witness ==
    /\ PrefixerCalled
    /\ value_of(self) = Float(22, 5)
    /\ ret = [kind |-> "prefixed", scaled |-> Float(22, 0 - 1), prefix |-> "M"]

\* the codes of each table
Domain(ename) ==
    CASE ename = "ValueColor" -> 0..9
      [] ename = "ExponentColor" -> ExponentRange
      [] ename = "TolerancePercentColor" ->
            {Float(1, 0), Float(2, 0), Float(5, 0 - 1), Float(25, 0 - 2),
             Float(1, 0 - 1), Float(5, 0 - 2), Float(5, 0), Float(10, 0),
             Float(20, 0)}

\* C6: in each table every code of the domain has a name, and the code of
\* that name is the code again; gray and grey have the same code (8, and
\* 0.05 percent), and the name of a code is never grey.
C6_TableBijective ==
    /\ (path = <<"by_value">> /\ inputs[2] \in Domain(inputs[1])) =>
            /\ ret.kind = "member"
            /\ ret.name # "grey"
    /\ path = <<"by_value", "by_name">> =>
            /\ inputs[2] \in Domain(inputs[1])
            /\ ret.kind = "member"
            /\ ret.value = inputs[2]
    /\ (path = <<"by_name">> /\ inputs[2] \in {"gray", "grey"}) =>
            /\ inputs[1] = "ValueColor" => ret.kind = "member" /\ ret.value = 8
            /\ inputs[1] = "TolerancePercentColor" =>
                    ret.kind = "member" /\ ret.value = Float(5, 0 - 2)
    /\ (path = <<"by_name", "by_value">> /\ inputs[2] \in {"gray", "grey"}) =>
            ret.kind = "member" /\ ret.name = "gray"

C6_Witness ==
    /\ path = <<"by_name", "by_value">>
    /\ inputs = <<"ValueColor", "grey">>
    /\ ret = [kind |-> "member", enum |-> "ValueColor", name |-> "gray", value |-> 8]

OutOfRange(x) ==
    /\ x.type = "ValueError"
    /\ x.msg \in {"is not a valid ValueColor", "is not a valid ExponentColor"}

Method(op) == Len(path) = 2 /\ path[2] = op

\* C7: every call returns a value or raises one exception, never both;
\* from_float of a value <= 0 raises the domain error; the band constructors
\* raise the unknown-name error when a name is outside the vocabulary of its
\* position and succeed otherwise; as_three_bands and as_four_bands raise a
\* code-out-of-range error when the derived exponent is outside -3..7.
C7_OneErrorNoPartialResult ==
    /\ path # <<>> => ((exc = NoExc) <=> (ret # None))
    /\ (path # <<>> /\ Len(path) # 2) => self = ret
    /\ path = <<"from_float">> =>
            IF inputs[1].m <= 0
            THEN exc = MathDomainError /\ self = None
            ELSE exc = NoExc /\ self.kind = "ResistorValue"
    /\ path = <<"from_three_bands">> =>
            IF /\ inputs[1][1] \in ValueNames
               /\ inputs[1][2] \in ValueNames
               /\ inputs[1][3] \in ExponentNames
            THEN exc = NoExc /\ self.kind = "ResistorValue"
            ELSE exc.type = "KeyError" /\ self = None
    /\ path = <<"from_four_bands">> =>
            IF /\ inputs[1][1] \in ValueNames
               /\ inputs[1][2] \in ValueNames
               /\ inputs[1][3] \in ValueNames
               /\ inputs[1][4] \in ExponentNames
            THEN exc = NoExc /\ self.kind = "ResistorValue"
            ELSE exc.type = "KeyError" /\ self = None
    /\ (Method("as_three_bands") /\ value_of(self).m > 0
            /\ FloorLog10(value_of(self)) - 1 \notin ExponentRange) =>
            OutOfRange(exc) /\ ret = None
    /\ (Method("as_four_bands") /\ value_of(self).m > 0
            /\ FloorLog10(value_of(self)) - 2 \notin ExponentRange) =>
            OutOfRange(exc) /\ ret = None

C7_Witness ==
    /\ path = <<"from_three_bands">>
    /\ inputs = << <<"gold", "red", "grey">> >>
    /\ exc = KeyError("gold")
    /\ self = None
    /\ ret = None

\* the value of self rounds at 2 significant digits to the 3-digit mantissa
\* 100: its 3-digit mantissa is 996..999, or 995 with the tie exact
RoundsToHundred ==
    /\ self.fixed.mantissa \in 995..999
    /\ self.fixed.mantissa = 995 => value_of(self).e >= 0

\* C8: as_three_bands of a value made by from_float that rounds to the
\* mantissa 100 returns no bands and raises the value-colour code 10 as out
\* of range; as_four_bands of a value made by from_float never raises an
\* out-of-range value colour, the mantissa 1000 being encoded as 100 at the
\* exponent raised by one.
C8_DigitOverflow ==
    /\ (EncodedThree /\ RoundsToHundred) =>
            /\ ret = None
            /\ exc = NotAValid("ValueColor", 10)
    /\ EncodedFour =>
            /\ exc.type = "ValueError" => exc.msg # "is not a valid ValueColor"
            /\ (self.fixed.mantissa = 1000 /\ ret # None) =>
                    /\ SubSeq(ret.names, 1, 3) = <<"brown", "black", "black">>
                    /\ self.fixed.exponent + 1 \in ExponentRange
                    /\ ret.names[4] = ExponentScale[self.fixed.exponent + 1 + 4]

C8_Witness ==
    /\ EncodedThree
    /\ inputs[1] = Float(996, 0)
    /\ self = ResistorValue(Fixed(996, 0))
    /\ ret = None
    /\ exc = NotAValid("ValueColor", 10)

\* the exponent colour one below
Lowered(name) ==
    LET k == CHOOSE k \in DOMAIN ExponentScale : ExponentScale[k] = name
    IN  ExponentScale[k - 1]

\* C9: as_three_bands of from_three_bands(first, second, exponent) returns
\* the three names, grey as gray, when first is not black; when first is
\* black it raises if second is black or exponent is pink, and otherwise
\* returns second, black and the exponent colour one below.
C9_BandsRoundTrip ==
    (path = <<"from_three_bands", "as_three_bands">>) =>
        LET first == inputs[1][1]
            second == inputs[1][2]
            exponent == inputs[1][3]
        IN  /\ first \in ValueNames /\ second \in ValueNames
            /\ exponent \in ExponentNames
            /\ IF first # "black"
               THEN /\ exc = NoExc
                    /\ ret = Bands(<<Canonical(first), Canonical(second), exponent>>)
               ELSE /\ ret # Bands(inputs[1])
                    /\ IF second = "black" \/ exponent = "pink"
                       THEN ret = None /\ exc # NoExc
                       ELSE ret = Bands(<<Canonical(second), "black", Lowered(exponent)>>)

C9_Witness ==
    /\ path = <<"from_three_bands", "as_three_bands">>
    /\ inputs = << <<"grey", "red", "gold">> >>
    /\ ret = Bands(<<"gray", "red", "gold">>)

\* C10: every card of the default run is made: from_float succeeds, the four
\* colours are the three bands and gold, the five colours the four bands and
\* brown, every colour is a name of ColorHex and of ColorAbbr, and pink (the
\* exponent -3) occurs only as the exponent of the four-band code at n = -1.
C10_DefaultRun ==
    /\ exc = NoExc
    /\ path # <<>> =>
        /\ self.kind = "ResistorValue"
        /\ ret.kind = "card"
        /\ Len(ret.four_colors) = 4 /\ Len(ret.five_colors) = 5
        /\ ret.four_colors[4] = "gold" /\ ret.five_colors[5] = "brown"
        /\ \A k \in 1..2 : ret.four_colors[k] \in ValueNames
        /\ \A k \in 1..3 : ret.five_colors[k] \in ValueNames
        /\ ret.four_colors[3] \in ExponentNames \ {"pink"}
        /\ ret.five_colors[4] \in ExponentNames
        /\ ret.five_colors[4] = "pink" <=> inputs[2] = 0 - 1
        /\ \A k \in 1..4 : ret.four_colors[k] \in Names(ColorHex) \cap Names(ColorAbbr)
        /\ \A k \in 1..5 : ret.five_colors[k] \in Names(ColorHex) \cap Names(ColorAbbr)
        /\ Len(ret.four_squares) = 4 /\ Len(ret.five_squares) = 5

C10_Witness ==
    /\ card_i = 112
    /\ inputs = <<Float(82, 0 - 1), 6>>
    /\ ret.kind = "card"
    /\ ret.four_colors = <<"gray", "red", "green", "gold">>
    /\ ret.five_colors = <<"gray", "red", "black", "yellow", "brown">>

====
